---- MODULE Spec2Model ----
(***************************************************************************)
(* Maschem backend: the products and contact routers over their two JSON   *)
(* files.  Every request handler is a small process: it validates, awaits  *)
(* a read of the whole file, changes the array in memory, awaits the write *)
(* of the whole file and answers.  The awaits are the only points where    *)
(* another request can run (Node's single thread), so each action below is *)
(* the code between two awaits.                                            *)
(***************************************************************************)
EXTENDS Integers, Sequences, FiniteSets, TLC

\* ---------------------------------------------------------------- bounds
NumProcs == 2
MaxReqs == 2

Procs == 1..NumProcs

\* ------------------------------------------------------------ JSON values
\* A JSON value of the model: absent (undefined), a string (sequence of
\* one-character strings), a number, or an ISO timestamp of instant n.
Absent == [k |-> "absent", s |-> <<>>, n |-> 0]
Str(s) == [k |-> "str", s |-> s, n |-> 0]
Num(n) == [k |-> "num", s |-> <<>>, n |-> n]
Time(t) == [k |-> "time", s |-> <<>>, n |-> t]
NaN == [k |-> "nan", s |-> <<>>, n |-> 0]
Null == [k |-> "null", s |-> <<>>, n |-> 0]

Digits == <<"0", "1", "2", "3", "4", "5", "6", "7", "8", "9">>
IsDigit(c) == \E i \in 1..Len(Digits) : Digits[i] = c
DigitVal(c) == (CHOOSE i \in 1..Len(Digits) : Digits[i] = c) - 1
AllDigits(s) == \A i \in 1..Len(s) : IsDigit(s[i])

RECURSIVE DigitsValue(_)
DigitsValue(s) ==
    IF s = <<>> THEN 0
    ELSE 10 * DigitsValue(SubSeq(s, 1, Len(s) - 1)) + DigitVal(s[Len(s)])

\* String.prototype.trim / validator's trim(): strips blanks at both ends.
RECURSIVE TrimLeft(_)
TrimLeft(s) == IF s # <<>> /\ Head(s) = " " THEN TrimLeft(Tail(s)) ELSE s
RECURSIVE TrimRight(_)
TrimRight(s) ==
    IF s # <<>> /\ s[Len(s)] = " " THEN TrimRight(SubSeq(s, 1, Len(s) - 1)) ELSE s
trim(s) == TrimRight(TrimLeft(s))

\* String.prototype.toLowerCase over the model's alphabet.
Uppers == <<"A", "B", "C", "D", "J", "X">>
Lowers == <<"a", "b", "c", "d", "j", "x">>
LowerOf(c) ==
    IF \E i \in 1..Len(Uppers) : Uppers[i] = c
    THEN Lowers[CHOOSE i \in 1..Len(Uppers) : Uppers[i] = c]
    ELSE c
toLowerCase(s) == [i \in 1..Len(s) |-> LowerOf(s[i])]

\* s.replace(/\s+/g, '-'): every run of blanks becomes one hyphen.
RECURSIVE collapseSpaces(_)
collapseSpaces(s) ==
    IF s = <<>> THEN <<>>
    ELSE IF Head(s) = " "
         THEN <<"-">> \o collapseSpaces(TrimLeft(s))
         ELSE <<Head(s)>> \o collapseSpaces(Tail(s))

\* The leading digits of s.
RECURSIVE LeadingDigits(_)
LeadingDigits(s) ==
    IF s # <<>> /\ IsDigit(Head(s)) THEN <<Head(s)>> \o LeadingDigits(Tail(s)) ELSE <<>>

Unsigned(s) == IF s # <<>> /\ Head(s) \in {"+", "-"} THEN Tail(s) ELSE s
Negative(s) == s # <<>> /\ Head(s) = "-"

\* validator.js isNumeric: /^[+-]?([0-9]*[.])?[0-9]+$/
isNumericStr(s) ==
    LET u == Unsigned(s)
        int == LeadingDigits(u)
        rest == SubSeq(u, Len(int) + 1, Len(u))
    IN  \/ (rest = <<>> /\ int # <<>>)
        \/ (rest # <<>> /\ Head(rest) = "." /\ Len(rest) > 1 /\ AllDigits(Tail(rest)))

\* parseInt(s): blanks skipped, optional sign, then the leading digits; NaN
\* when there is none.  Whatever follows the digits is ignored.
parseInt(s) ==
    LET t == TrimLeft(s)
        d == LeadingDigits(Unsigned(t))
    IN  IF d = <<>> THEN NaN
        ELSE Num(IF Negative(t) THEN 0 - DigitsValue(d) ELSE DigitsValue(d))

\* parseFloat on the model's numerals (whole numbers, optional sign); a
\* number is returned as it is.
parseFloat(v) == IF v.k = "num" THEN v ELSE IF v.k = "str" THEN parseInt(v.s) ELSE NaN

\* validator.js isFloat({min: 0}) on the string form of the value.
isFloatMin0(v) ==
    \/ (v.k = "num" /\ v.n >= 0)
    \/ (v.k = "str" /\ Unsigned(v.s) # <<>> /\ AllDigits(Unsigned(v.s))
          /\ parseInt(v.s).n >= 0)

\* validator's notEmpty() after trim(): undefined counts as ''.
StrOf(v) == IF v.k = "str" THEN v.s ELSE <<>>
Trimmed(v) == Str(trim(StrOf(v)))
notEmpty(v) == StrOf(v) # <<>>

\* ------------------------------------------------------------- records
ProductFields ==
    {"id", "name", "image", "description", "packaging", "category", "price",
     "createdAt", "updatedAt"}
SubmissionFields ==
    {"id", "firstName", "lastName", "email", "phone", "subject", "message",
     "status", "createdAt", "updatedAt"}

\* A request body: every field of the resource, Absent where the client sent
\* none.  Requests without a body carry the empty one.
NoBody == <<>>
ProductBody(fields) ==
    [f \in ProductFields |-> IF f \in DOMAIN fields THEN fields[f] ELSE Absent]
ContactBody(fields) ==
    [f \in SubmissionFields |-> IF f \in DOMAIN fields THEN fields[f] ELSE Absent]

Range(seq) == {seq[i] : i \in 1..Len(seq)}
SelectIdx(seq, Test(_)) == {i \in 1..Len(seq) : Test(seq[i])}
Max(S) == CHOOSE x \in S : \A y \in S : y <= x
Min(S) == CHOOSE x \in S : \A y \in S : x <= y

\* Array.prototype.findIndex, 1-based; 0 stands for -1.
findIndex(seq, Test(_)) ==
    IF SelectIdx(seq, Test) = {} THEN 0 ELSE Min(SelectIdx(seq, Test))

\* Array.prototype.splice(index, 1): the array without that element.
splice(seq, i) == SubSeq(seq, 1, i - 1) \o SubSeq(seq, i + 1, Len(seq))


\* Array.prototype.filter
filter(seq, Test(_)) == SelectSeq(seq, Test)

\* ---------------------------------------------------------------- state
VARIABLES
    productsFile,     \* parsed content of products.json
    submissionsFile,  \* parsed content of data/contact-submissions.json
    dataDir,          \* whether the data directory exists
    pc,               \* per request slot: "idle", "read", "read2" or "save"
    req,              \* the request a slot is handling (sanitized by validation)
    local,            \* the array the handler holds in memory
    item,             \* the record the handler will answer with
    io,               \* the handler's file accesses so far
    now,              \* the clock; also the number of requests received
    uuid,             \* source of fresh uuidv4 tokens
    faults,           \* file accesses that have failed so far
    log               \* the answered requests, in the order of the answers

vars ==
    <<productsFile, submissionsFile, dataDir, pc, req, local, item, io, now, uuid, faults, log>>

NoRecord == <<>>
NoQuery == [category |-> Absent, search |-> Absent, minPrice |-> Absent,
            maxPrice |-> Absent, sort |-> Absent, status |-> Absent]
NoReq == [op |-> "none", id |-> Absent, body |-> NoBody, q |-> NoQuery, raw |-> NoBody]
NoIO == [reads |-> 0, failed |-> {}, writes |-> 0, saved |-> "none"]

\* ------------------------------------------------------- products.js I/O
\* getProductsData: the parsed file, or [] when the read or the parse throws.
getProductsData(file, ok) == IF ok THEN file ELSE <<>>

\* A variant that keeps the records of the file that the array lacks.
saveProductsDataMerging(file, products, ok) ==
    IF ok
    THEN products \o SelectSeq(file, LAMBDA x : \A i \in 1..Len(products) : products[i].id # x.id)
    ELSE file

\* saveProductsData: the file after writeFile(products); unchanged when the
\* write throws.  The function returns ok.
saveProductsData(file, products, ok) == IF ok THEN products ELSE file

\* ----------------------------------------------------- contact.js I/O
\* getSubmissions: ensureDataDirectory, then the parsed file; [] on ENOENT
\* (no file yet) and on any other failure.
getSubmissions(file, ok) == IF ok THEN file ELSE <<>>

\* saveSubmissions: ensureDataDirectory, then the file after writeFile.
saveSubmissions(file, submissions, ok) == IF ok THEN submissions ELSE file

\* ------------------------------------------------------------ validation
Check(field, ok, message) == [field |-> field, ok |-> ok, message |-> message]
Failing(checks) ==
    LET bad == SelectSeq(checks, LAMBDA c : ~c.ok)
    IN  [i \in 1..Len(bad) |-> [field |-> bad[i].field, message |-> bad[i].message]]

\* optional(): the chain is skipped when the field is undefined.
Optional(v, ok) == v = Absent \/ ok

ParamIdChecks(r) ==
    <<Check("id", r.id.k = "str" /\ isNumericStr(r.id.s), "Product ID must be a number")>>

\* router.post('/') chains of products.js
ProductCreateChecks(r) ==
    <<Check("name", notEmpty(Trimmed(r.body.name)), "Product name is required"),
      Check("description", notEmpty(Trimmed(r.body.description)), "Description is required"),
      Check("category", notEmpty(Trimmed(r.body.category)), "Category is required"),
      Check("packaging", notEmpty(Trimmed(r.body.packaging)), "Packaging is required"),
      Check("price", isFloatMin0(r.body.price), "Price must be a positive number")>>

\* router.put('/:id') chains of products.js
ProductUpdateChecks(r) ==
    ParamIdChecks(r) \o
    <<Check("name", Optional(r.body.name, notEmpty(Trimmed(r.body.name))),
            "Product name cannot be empty"),
      Check("price", Optional(r.body.price, isFloatMin0(r.body.price)),
            "Price must be a positive number")>>

\* The words of the two enumerations: each is one symbol of the model's
\* alphabet, so a word is a string of length one.
Subjects == {<<"general">>, <<"products">>, <<"orders">>, <<"support">>, <<"partnership">>}
Statuses == {<<"pending">>, <<"read">>, <<"responded">>, <<"archived">>}

MinName == 2
MaxName == 50
MinMessage == 10
MaxMessage == 2000
MinPhone == 7
MaxPhone == 20

isLength(v, lo, hi) == Len(StrOf(v)) >= lo /\ Len(StrOf(v)) <= hi

\* validator.js isEmail, reduced to: one "@" with text on both sides.
isEmail(v) ==
    LET s == StrOf(v)
        ats == {i \in 1..Len(s) : s[i] = "@"}
    IN  Cardinality(ats) = 1 /\ \A i \in ats : i > 1 /\ i < Len(s)
           /\ \A j \in 1..Len(s) : s[j] # " "

\* normalizeEmail(): lower case (the provider-specific rules are left out).
normalizeEmail(v) == Str(toLowerCase(StrOf(v)))

\* /^[+]?[\d\s\-()]{7,20}$/
matchesPhone(v) ==
    LET s == StrOf(v)
        u == IF s # <<>> /\ Head(s) = "+" THEN Tail(s) ELSE s
    IN  /\ Len(u) >= MinPhone /\ Len(u) <= MaxPhone
        /\ \A i \in 1..Len(u) : IsDigit(u[i]) \/ u[i] \in {" ", "-", "(", ")"}

\* A chain stops adding errors for a field only when bail() is used; here
\* every failing validator of a chain reports.
ContactSubmitChecks(r) ==
    <<Check("firstName", notEmpty(Trimmed(r.body.firstName)), "First name is required"),
      Check("firstName", isLength(Trimmed(r.body.firstName), MinName, MaxName),
            "First name must be 2-50 characters"),
      Check("lastName", notEmpty(Trimmed(r.body.lastName)), "Last name is required"),
      Check("lastName", isLength(Trimmed(r.body.lastName), MinName, MaxName),
            "Last name must be 2-50 characters"),
      Check("email", notEmpty(Trimmed(r.body.email)), "Email is required"),
      Check("email", isEmail(Trimmed(r.body.email)), "Please provide a valid email address"),
      Check("phone", Optional(r.body.phone, matchesPhone(Trimmed(r.body.phone))),
            "Please provide a valid phone number"),
      Check("subject", notEmpty(Trimmed(r.body.subject)), "Subject is required"),
      Check("subject", StrOf(Trimmed(r.body.subject)) \in Subjects, "Invalid subject selected"),
      Check("message", notEmpty(Trimmed(r.body.message)), "Message is required"),
      Check("message", isLength(Trimmed(r.body.message), MinMessage, MaxMessage),
            "Message must be 10-2000 characters")>>

\* router.patch('/submissions/:id') chain of contact.js
StatusChecks(r) ==
    <<Check("status", r.body.status.k = "str" /\ r.body.status.s \in Statuses,
            "Invalid status")>>

\* The validation chains in front of each route.
Checks(r) ==
    CASE r.op = "create" -> ProductCreateChecks(r)
      [] r.op = "update" -> ProductUpdateChecks(r)
      [] r.op \in {"delete", "getById"} -> ParamIdChecks(r)
      [] r.op = "submit" -> ContactSubmitChecks(r)
      [] r.op = "updateStatus" -> StatusChecks(r)
      [] OTHER -> <<>>

\* validationResult(req).array(), mapped to {field, message}.
validationResult(r) == Failing(Checks(r))

\* The sanitizers of the chains write their result back into req.body.
TrimField(b, f) == IF b[f] = Absent THEN b ELSE [b EXCEPT ![f] = Trimmed(@)]
TrimAll(b, fs) == [f \in DOMAIN b |-> IF f \in fs THEN Trimmed(b[f]) ELSE b[f]]
Sanitized(r) ==
    CASE r.op = "create" ->
           [r EXCEPT !.body = TrimAll(@, {"name", "description", "category", "packaging"})]
      [] r.op = "update" -> [r EXCEPT !.body = TrimField(@, "name")]
      [] r.op = "submit" ->
           [r EXCEPT !.body =
              LET t == TrimField(TrimAll(@, {"firstName", "lastName", "email",
                                             "subject", "message"}), "phone")
              IN  [t EXCEPT !.email = normalizeEmail(@)]]
      [] OTHER -> r

\* A variant that calls next() whatever the result.
handleValidationErrorsPassing(errors) == FALSE

\* handleValidationErrors: TRUE when the request is answered 400 here and
\* next() is not called.
handleValidationErrors(errors) == errors # <<>>


\* ------------------------------------------------------------- answers
MaxFaults == 1

\* The outcomes of one file access: it succeeds, or (while the fault budget
\* lasts) it throws.
IoOutcomes == IF faults < MaxFaults THEN {TRUE, FALSE} ELSE {TRUE}

Reply(status, success, data, count, categories, errors, error) ==
    [status |-> status, success |-> success, data |-> data, count |-> count,
     categories |-> categories, errors |-> errors, error |-> error]

Created(data) == Reply(201, TRUE, data, Absent, <<>>, <<>>, "")
Success(data) == Reply(200, TRUE, data, Absent, <<>>, <<>>, "")
\* A variant that counts the categories instead of the data.
ListingCountingCategories(data, categories) ==
    Reply(200, TRUE, data, Num(Len(categories)), categories, <<>>, "")

\* res.json({success: true, count: data.length, categories, data})
Listing(data, categories) == Reply(200, TRUE, data, Num(Len(data)), categories, <<>>, "")
Invalid(errors) == Reply(400, FALSE, <<>>, Absent, <<>>, errors, "")
NotFound(error) == Reply(404, FALSE, <<>>, Absent, <<>>, <<>>, error)

\* middleware/errorHandler.js for an Error thrown by a handler: the status
\* is err.statusCode or 500, 400 for a ValidationError or a body SyntaxError,
\* 404 for ENOENT.
errorHandler(err) ==
    LET statusCode ==
            IF err.code = "ENOENT" THEN 404
            ELSE IF err.name = "SyntaxError" /\ err.body THEN 400
            ELSE IF err.name = "ValidationError" THEN 400
            ELSE IF err.statusCode # 0 THEN err.statusCode ELSE 500
        message ==
            IF err.code = "ENOENT" THEN "Resource not found"
            ELSE IF err.name = "SyntaxError" /\ err.body THEN "Invalid JSON in request body"
            ELSE IF err.name = "ValidationError" THEN "Validation Error"
            ELSE IF err.message # "" THEN err.message ELSE "Internal Server Error"
    IN  Reply(statusCode, FALSE, <<>>, Absent, <<>>, <<>>, message)

Error(message) ==
    [name |-> "Error", message |-> message, statusCode |-> 0, code |-> "", body |-> FALSE]

Entry(p, r, i, reply) == [p |-> p, req |-> r, io |-> i, res |-> reply]

\* res.json(...): the answer is logged and the slot is free again.
Answer(p, i, reply) ==
    /\ log' = Append(log, Entry(p, req[p], i, reply))
    /\ pc' = [pc EXCEPT ![p] = "idle"]
    /\ req' = [req EXCEPT ![p] = NoReq]
    /\ local' = [local EXCEPT ![p] = <<>>]
    /\ item' = [item EXCEPT ![p] = NoRecord]
    /\ io' = [io EXCEPT ![p] = NoIO]

\* The handler's record of its accesses: the number of loads, which of them
\* failed, the number of writes and how the last one ended.
ReadBy(i, ok) ==
    [i EXCEPT !.reads = @ + 1, !.failed = IF ok THEN @ ELSE @ \cup {i.reads + 1}]
WrittenBy(i, ok) == [i EXCEPT !.writes = @ + 1, !.saved = IF ok THEN "ok" ELSE "failed"]
Fault(ok) == faults' = IF ok THEN faults ELSE faults + 1

\* JavaScript truthiness of a body or query value.
Truthy(v) == v.k \notin {"absent", "null", "nan"} /\ v # Str(<<>>) /\ v # Num(0)

\* ------------------------------------------------------------- products
DefaultImage == <<"I", "m", "g">>

ProductIds(products) == {products[i].id.n : i \in 1..Len(products)}

\* A variant that numbers by the length of the array.
maxIdByLength(products) == Len(products)

\* products.length > 0 ? Math.max(...products.map(p => p.id)) : 0
maxId(products) == IF Len(products) > 0 THEN Max(ProductIds(products)) ELSE 0

\* The record router.post('/') builds from the sanitized body.
newProduct(products, body, t) ==
    [f \in ProductFields |->
        CASE f = "id" -> Num(maxId(products) + 1)
          [] f = "image" -> IF Truthy(body.image) THEN body.image ELSE Str(DefaultImage)
          [] f = "price" -> parseFloat(body.price)
          [] f = "createdAt" -> Time(t)
          [] f = "updatedAt" -> Absent
          [] OTHER -> body[f]]

\* A variant without the line that restores the id.
updatedProductSpread(old, body, t) ==
    [f \in ProductFields |->
        CASE f = "updatedAt" -> Time(t)
          [] OTHER -> IF body[f] # Absent THEN body[f] ELSE old[f]]

\* {...products[index], ...req.body, id: products[index].id, updatedAt: now}
updatedProduct(old, body, t) ==
    [f \in ProductFields |->
        CASE f = "id" -> old.id
          [] f = "updatedAt" -> Time(t)
          [] OTHER -> IF body[f] # Absent THEN body[f] ELSE old[f]]

\* p.id === parseInt(req.params.id)
MatchesId(product, id) == product.id = parseInt(StrOf(id))

\* A variant that uses the index without the test for -1, which splice and
\* the element access then count from the end of the array.
ProductIndexFromEnd(products, id) ==
    IF findIndex(products, LAMBDA x : MatchesId(x, id)) = 0
    THEN Len(products)
    ELSE findIndex(products, LAMBDA x : MatchesId(x, id))

\* products.findIndex(p => p.id === parseInt(req.params.id)), tested against -1
ProductIndex(products, id) == findIndex(products, LAMBDA x : MatchesId(x, id))

\* POST /api/products, up to the await of the write.
ProductCreateRead(p) ==
    /\ pc[p] = "read" /\ req[p].op = "create"
    /\ \E ok \in IoOutcomes :
        LET products == getProductsData(productsFile, ok)
            new == newProduct(products, req[p].body, now)
        IN  /\ local' = [local EXCEPT ![p] = Append(products, new)]
            /\ item' = [item EXCEPT ![p] = new]
            /\ io' = [io EXCEPT ![p] = ReadBy(@, ok)]
            /\ pc' = [pc EXCEPT ![p] = "save"]
            /\ Fault(ok)
    /\ UNCHANGED <<productsFile, submissionsFile, dataDir, req, now, uuid, log>>

\* POST /api/products: the write, whose result is dropped, and the answer.
ProductCreateSave(p) ==
    /\ pc[p] = "save" /\ req[p].op = "create"
    /\ \E ok \in IoOutcomes :
        /\ productsFile' = saveProductsData(productsFile, local[p], ok)
        /\ Answer(p, WrittenBy(io[p], ok), Created(<<item[p]>>))
        /\ Fault(ok)
    /\ UNCHANGED <<submissionsFile, dataDir, now, uuid>>

\* PUT /api/products/:id, up to the 404 or the await of the write.
ProductUpdateRead(p) ==
    /\ pc[p] = "read" /\ req[p].op = "update"
    /\ \E ok \in IoOutcomes :
        LET products == getProductsData(productsFile, ok)
            index == ProductIndex(products, req[p].id)
            updated == updatedProduct(products[index], req[p].body, now)
        IN  /\ Fault(ok)
            /\ IF index = 0
               THEN Answer(p, ReadBy(io[p], ok), NotFound("Product not found"))
               ELSE /\ local' = [local EXCEPT ![p] = [products EXCEPT ![index] = updated]]
                    /\ item' = [item EXCEPT ![p] = updated]
                    /\ io' = [io EXCEPT ![p] = ReadBy(@, ok)]
                    /\ pc' = [pc EXCEPT ![p] = "save"]
                    /\ UNCHANGED <<req, log>>
    /\ UNCHANGED <<productsFile, submissionsFile, dataDir, now, uuid>>

\* PUT /api/products/:id: the write, whose result is dropped, and the answer.
ProductUpdateSave(p) ==
    /\ pc[p] = "save" /\ req[p].op = "update"
    /\ \E ok \in IoOutcomes :
        /\ productsFile' = saveProductsData(productsFile, local[p], ok)
        /\ Answer(p, WrittenBy(io[p], ok), Success(<<item[p]>>))
        /\ Fault(ok)
    /\ UNCHANGED <<submissionsFile, dataDir, now, uuid>>

\* DELETE /api/products/:id, up to the 404 or the await of the write.
ProductDeleteRead(p) ==
    /\ pc[p] = "read" /\ req[p].op = "delete"
    /\ \E ok \in IoOutcomes :
        LET products == getProductsData(productsFile, ok)
            index == ProductIndex(products, req[p].id)
        IN  /\ Fault(ok)
            /\ IF index = 0
               THEN Answer(p, ReadBy(io[p], ok), NotFound("Product not found"))
               ELSE /\ local' = [local EXCEPT ![p] = splice(products, index)]
                    /\ item' = [item EXCEPT ![p] = products[index]]
                    /\ io' = [io EXCEPT ![p] = ReadBy(@, ok)]
                    /\ pc' = [pc EXCEPT ![p] = "save"]
                    /\ UNCHANGED <<req, log>>
    /\ UNCHANGED <<productsFile, submissionsFile, dataDir, now, uuid>>

\* DELETE /api/products/:id: the write, whose result is dropped, and the answer.
ProductDeleteSave(p) ==
    /\ pc[p] = "save" /\ req[p].op = "delete"
    /\ \E ok \in IoOutcomes :
        /\ productsFile' = saveProductsData(productsFile, local[p], ok)
        /\ Answer(p, WrittenBy(io[p], ok), Success(<<item[p]>>))
        /\ Fault(ok)
    /\ UNCHANGED <<submissionsFile, dataDir, now, uuid>>

\* GET /api/products/:id
ProductGetById(p) ==
    /\ pc[p] = "read" /\ req[p].op = "getById"
    /\ \E ok \in IoOutcomes :
        LET products == getProductsData(productsFile, ok)
            index == ProductIndex(products, req[p].id)
        IN  /\ Fault(ok)
            /\ IF index = 0
               THEN Answer(p, ReadBy(io[p], ok), NotFound("Product not found"))
               ELSE Answer(p, ReadBy(io[p], ok), Success(<<products[index]>>))
    /\ UNCHANGED <<productsFile, submissionsFile, dataDir, now, uuid>>


\* ToNumber of a stored or query value in a comparison or a subtraction.
ToNumber(v) ==
    CASE v.k = "num" -> v
      [] v.k = "str" ->
           IF trim(v.s) = <<>> THEN Num(0)
           ELSE IF Unsigned(trim(v.s)) # <<>> /\ AllDigits(Unsigned(trim(v.s)))
                THEN parseInt(v.s) ELSE NaN
      [] OTHER -> NaN

\* a >= b and a <= b of JavaScript: false when either side is NaN.
GreaterEq(a, b) ==
    ToNumber(a).k = "num" /\ ToNumber(b).k = "num" /\ ToNumber(a).n >= ToNumber(b).n
LessEq(a, b) ==
    ToNumber(a).k = "num" /\ ToNumber(b).k = "num" /\ ToNumber(a).n <= ToNumber(b).n

\* String.prototype.includes
includes(s, sub) ==
    \/ sub = <<>>
    \/ \E i \in 1..(Len(s) - Len(sub) + 1) : SubSeq(s, i, i + Len(sub) - 1) = sub

\* localeCompare(a, b) < 0, by the collation order of the model's letters.
Collation == <<" ", "-", "a", "A", "b", "B", "c", "C", "d", "D", "j", "J", "p", "x", "X">>
Rank(c) == CHOOSE i \in 1..Len(Collation) : Collation[i] = c
RECURSIVE LocaleLess(_, _)
LocaleLess(s, u) ==
    IF u = <<>> THEN FALSE
    ELSE IF s = <<>> THEN TRUE
    ELSE IF Head(s) = Head(u) THEN LocaleLess(Tail(s), Tail(u))
    ELSE Rank(Head(s)) < Rank(Head(u))

\* Array.prototype.sort with a comparator that is negative exactly when
\* Before(a, b): stable, so equal elements keep their order.
sort(seq, Before(_, _)) ==
    LET n == Len(seq)
        rank(i) == Cardinality({j \in 1..n :
                      Before(seq[j], seq[i]) \/ (~Before(seq[i], seq[j]) /\ j < i)}) + 1
    IN  [k \in 1..n |-> seq[CHOOSE i \in 1..n : rank(i) = k]]

\* [...new Set(list)]: the distinct elements in the order of first occurrence.
RECURSIVE distinct(_)
distinct(list) ==
    IF list = <<>> THEN <<>>
    ELSE LET front == distinct(SubSeq(list, 1, Len(list) - 1))
             last == list[Len(list)]
         IN  IF last \in Range(front) THEN front ELSE Append(front, last)

categoriesOf(products) == distinct([i \in 1..Len(products) |-> products[i].category])

\* The filters and the sort of GET /api/products, in the handler's order.
\* x.toLowerCase() is a TypeError when x is not a string.
IsString(v) == v.k = "str"
NotAFunction == "toLowerCase is not a function"
TypeError(message) == [Error(message) EXCEPT !.name = "TypeError"]

byCategory(products, q) ==
    IF Truthy(q.category)
    THEN filter(products,
                LAMBDA x : toLowerCase(StrOf(x.category)) = toLowerCase(StrOf(q.category)))
    ELSE products
bySearch(products, q) ==
    IF Truthy(q.search)
    THEN filter(products,
                LAMBDA x : \/ includes(toLowerCase(StrOf(x.name)), toLowerCase(StrOf(q.search)))
                           \/ includes(toLowerCase(StrOf(x.description)),
                                       toLowerCase(StrOf(q.search))))
    ELSE products
byMinPrice(products, q) ==
    IF Truthy(q.minPrice)
    THEN filter(products, LAMBDA x : GreaterEq(x.price, parseFloat(q.minPrice)))
    ELSE products
byMaxPrice(products, q) ==
    IF Truthy(q.maxPrice)
    THEN filter(products, LAMBDA x : LessEq(x.price, parseFloat(q.maxPrice)))
    ELSE products
sorted(products, q) ==
    CASE q.sort = Str(<<"price_asc">>) ->
           sort(products, LAMBDA a, b : ToNumber(a.price).n < ToNumber(b.price).n)
      [] q.sort = Str(<<"price_desc">>) ->
           sort(products, LAMBDA a, b : ToNumber(b.price).n < ToNumber(a.price).n)
      [] q.sort = Str(<<"name_asc">>) ->
           sort(products, LAMBDA a, b : LocaleLess(StrOf(a.name), StrOf(b.name)))
      [] q.sort = Str(<<"name_desc">>) ->
           sort(products, LAMBDA a, b : LocaleLess(StrOf(b.name), StrOf(a.name)))
      [] OTHER -> products
\* The filters throw when toLowerCase is called on a stored value that is
\* not a string: the category of any product when category is given, the
\* name, or the description when the name does not contain the term, of a
\* product that passed the category filter when search is given.
filtersThrow(products, q) ==
    \/ Truthy(q.category) /\ \E i \in 1..Len(products) : ~IsString(products[i].category)
    \/ /\ Truthy(q.search)
       /\ \E i \in 1..Len(products) :
             LET x == products[i]
             IN  /\ ~Truthy(q.category)
                    \/ toLowerCase(StrOf(x.category)) = toLowerCase(StrOf(q.category))
                 /\ \/ ~IsString(x.name)
                    \/ /\ ~includes(toLowerCase(StrOf(x.name)), toLowerCase(StrOf(q.search)))
                       /\ ~IsString(x.description)

listed(products, q) ==
    sorted(byMaxPrice(byMinPrice(bySearch(byCategory(products, q), q), q), q), q)

\* GET /api/products: the first load, the filters and the sort.  A filter
\* that throws is caught and handed to the error handler.
ProductListRead(p) ==
    /\ pc[p] = "read" /\ req[p].op = "listAll"
    /\ \E ok \in IoOutcomes :
        LET products == getProductsData(productsFile, ok)
        IN  /\ IF filtersThrow(products, req[p].q)
               THEN Answer(p, ReadBy(io[p], ok), errorHandler(TypeError(NotAFunction)))
               ELSE /\ local' = [local EXCEPT ![p] = listed(products, req[p].q)]
                    /\ io' = [io EXCEPT ![p] = ReadBy(@, ok)]
                    /\ pc' = [pc EXCEPT ![p] = "read2"]
                    /\ UNCHANGED <<req, item, log>>
            /\ Fault(ok)
    /\ UNCHANGED <<productsFile, submissionsFile, dataDir, now, uuid>>

\* GET /api/products: the second load, for the categories, and the answer.
ProductListCategories(p) ==
    /\ pc[p] = "read2" /\ req[p].op = "listAll"
    /\ \E ok \in IoOutcomes :
        LET allProducts == getProductsData(productsFile, ok)
        IN  /\ Answer(p, ReadBy(io[p], ok), Listing(local[p], categoriesOf(allProducts)))
            /\ Fault(ok)
    /\ UNCHANGED <<productsFile, submissionsFile, dataDir, now, uuid>>

\* GET /api/products/categories
ProductCategories(p) ==
    /\ pc[p] = "read" /\ req[p].op = "categories"
    /\ \E ok \in IoOutcomes :
        LET products == getProductsData(productsFile, ok)
        IN  /\ Answer(p, ReadBy(io[p], ok), Listing(categoriesOf(products), <<>>))
            /\ Fault(ok)
    /\ UNCHANGED <<productsFile, submissionsFile, dataDir, now, uuid>>

\* category.toLowerCase().replace(/\s+/g, '-')
normalized(v) == collapseSpaces(toLowerCase(StrOf(v)))

\* GET /api/products/category/:category
ProductListByCategory(p) ==
    /\ pc[p] = "read" /\ req[p].op = "listByCategory"
    /\ \E ok \in IoOutcomes :
        LET products == getProductsData(productsFile, ok)
            categoryProducts ==
                filter(products, LAMBDA x : normalized(x.category) = normalized(req[p].q.category))
        IN  /\ IF \E i \in 1..Len(products) : ~IsString(products[i].category)
               THEN Answer(p, ReadBy(io[p], ok), errorHandler(TypeError(NotAFunction)))
               ELSE Answer(p, ReadBy(io[p], ok), Listing(categoryProducts, <<>>))
            /\ Fault(ok)
    /\ UNCHANGED <<productsFile, submissionsFile, dataDir, now, uuid>>

\* --------------------------------------------------------------- contact
\* uuidv4(): a token no earlier call returned.
uuidv4(n) == Str(<<"u", Digits[n + 1]>>)

\* The record router.post('/') of contact.js builds from the sanitized body
\* (ipAddress and userAgent, copied from the request, are left out).
newSubmission(body, id, t) ==
    [f \in SubmissionFields |->
        CASE f = "id" -> id
          [] f = "phone" -> IF Truthy(body.phone) THEN body.phone ELSE Null
          [] f = "status" -> Str(<<"pending">>)
          [] f = "createdAt" -> Time(t)
          [] f = "updatedAt" -> Absent
          [] OTHER -> body[f]]

\* {...submissions[index], status: req.body.status, updatedAt: now}
updatedSubmission(old, body, t) ==
    [old EXCEPT !.status = body.status, !.updatedAt = Time(t)]

SubmissionIndex(submissions, id) == findIndex(submissions, LAMBDA x : x.id = id)

\* POST /api/contact, up to the await of the write.
ContactSubmitRead(p) ==
    /\ pc[p] = "read" /\ req[p].op = "submit"
    /\ \E ok \in IoOutcomes :
        LET submissions == getSubmissions(submissionsFile, ok)
            new == newSubmission(req[p].body, uuidv4(uuid), now)
        IN  /\ local' = [local EXCEPT ![p] = Append(submissions, new)]
            /\ item' = [item EXCEPT ![p] = new]
            /\ io' = [io EXCEPT ![p] = ReadBy(@, ok)]
            /\ pc' = [pc EXCEPT ![p] = "save"]
            /\ dataDir' = (dataDir \/ ok)
            /\ Fault(ok)
    /\ uuid' = uuid + 1
    /\ UNCHANGED <<productsFile, submissionsFile, req, now, log>>

\* POST /api/contact: the write; a failed write is thrown to the error handler.
ContactSubmitSave(p) ==
    /\ pc[p] = "save" /\ req[p].op = "submit"
    /\ \E ok \in IoOutcomes :
        /\ submissionsFile' = saveSubmissions(submissionsFile, local[p], ok)
        /\ dataDir' = (dataDir \/ ok)
        /\ IF ~ok
           THEN Answer(p, WrittenBy(io[p], ok), errorHandler(Error("Failed to save submission")))
           ELSE Answer(p, WrittenBy(io[p], ok),
                       Created(<<[id |-> item[p].id, submittedAt |-> item[p].createdAt]>>))
        /\ Fault(ok)
    /\ UNCHANGED <<productsFile, now, uuid>>

\* GET /api/contact/submissions
ContactList(p) ==
    /\ pc[p] = "read" /\ req[p].op = "listSubmissions"
    /\ \E ok \in IoOutcomes :
        LET submissions == getSubmissions(submissionsFile, ok)
            filtered == IF Truthy(req[p].q.status)
                        THEN filter(submissions, LAMBDA x : x.status = req[p].q.status)
                        ELSE submissions
            ordered == IF req[p].q.sort = Str(<<"oldest">>)
                       THEN sort(filtered, LAMBDA a, b : a.createdAt.n < b.createdAt.n)
                       ELSE sort(filtered, LAMBDA a, b : b.createdAt.n < a.createdAt.n)
        IN  /\ Answer(p, ReadBy(io[p], ok), Listing(ordered, <<>>))
            /\ dataDir' = (dataDir \/ ok)
            /\ Fault(ok)
    /\ UNCHANGED <<productsFile, submissionsFile, now, uuid>>

\* PATCH /api/contact/submissions/:id, up to the 404 or the await of the write.
ContactStatusRead(p) ==
    /\ pc[p] = "read" /\ req[p].op = "updateStatus"
    /\ \E ok \in IoOutcomes :
        LET submissions == getSubmissions(submissionsFile, ok)
            index == SubmissionIndex(submissions, req[p].id)
            updated == updatedSubmission(submissions[index], req[p].body, now)
        IN  /\ Fault(ok)
            /\ dataDir' = (dataDir \/ ok)
            /\ IF index = 0
               THEN Answer(p, ReadBy(io[p], ok), NotFound("Submission not found"))
               ELSE /\ local' = [local EXCEPT ![p] = [submissions EXCEPT ![index] = updated]]
                    /\ item' = [item EXCEPT ![p] = updated]
                    /\ io' = [io EXCEPT ![p] = ReadBy(@, ok)]
                    /\ pc' = [pc EXCEPT ![p] = "save"]
                    /\ UNCHANGED <<req, log>>
    /\ UNCHANGED <<productsFile, submissionsFile, now, uuid>>

\* PATCH /api/contact/submissions/:id: the write, whose result is dropped.
ContactStatusSave(p) ==
    /\ pc[p] = "save" /\ req[p].op = "updateStatus"
    /\ \E ok \in IoOutcomes :
        /\ submissionsFile' = saveSubmissions(submissionsFile, local[p], ok)
        /\ dataDir' = (dataDir \/ ok)
        /\ Answer(p, WrittenBy(io[p], ok), Success(<<item[p]>>))
        /\ Fault(ok)
    /\ UNCHANGED <<productsFile, now, uuid>>

\* DELETE /api/contact/submissions/:id, up to the 404 or the await of the write.
ContactDeleteRead(p) ==
    /\ pc[p] = "read" /\ req[p].op = "deleteSubmission"
    /\ \E ok \in IoOutcomes :
        LET submissions == getSubmissions(submissionsFile, ok)
            index == SubmissionIndex(submissions, req[p].id)
        IN  /\ Fault(ok)
            /\ dataDir' = (dataDir \/ ok)
            /\ IF index = 0
               THEN Answer(p, ReadBy(io[p], ok), NotFound("Submission not found"))
               ELSE /\ local' = [local EXCEPT ![p] = splice(submissions, index)]
                    /\ item' = [item EXCEPT ![p] = submissions[index]]
                    /\ io' = [io EXCEPT ![p] = ReadBy(@, ok)]
                    /\ pc' = [pc EXCEPT ![p] = "save"]
                    /\ UNCHANGED <<req, log>>
    /\ UNCHANGED <<productsFile, submissionsFile, now, uuid>>

\* DELETE /api/contact/submissions/:id: the write, whose result is dropped.
ContactDeleteSave(p) ==
    /\ pc[p] = "save" /\ req[p].op = "deleteSubmission"
    /\ \E ok \in IoOutcomes :
        /\ submissionsFile' = saveSubmissions(submissionsFile, local[p], ok)
        /\ dataDir' = (dataDir \/ ok)
        /\ Answer(p, WrittenBy(io[p], ok), Success(<<item[p]>>))
        /\ Fault(ok)
    /\ UNCHANGED <<productsFile, now, uuid>>


\* --------------------------------------------------------------- server
\* Requests to a path under /api that no route of server.js, products.js or
\* contact.js matches, by method.
UnroutedOps == {"unroutedGet", "unroutedPost"}
Method(op) == IF op = "unroutedGet" THEN "GET" ELSE "POST"
ApiEndpointNotFound == "API endpoint not found"

\* app.get('*'): the path starts with /api, so nothing is sent, and next()
\* is not called either: the request stays without an answer.
FrontendCatchAll(p) ==
    /\ pc[p] = "frontend" /\ Method(req[p].op) = "GET"
    /\ pc' = [pc EXCEPT ![p] = "hung"]
    /\ UNCHANGED <<productsFile, submissionsFile, dataDir, req, local, item, io, now, uuid,
                   faults, log>>

\* app.use('/api/*'), reached by the methods app.get('*') does not match.
ApiNotFound(p) ==
    /\ pc[p] = "frontend" /\ Method(req[p].op) # "GET"
    /\ Answer(p, io[p], NotFound(ApiEndpointNotFound))
    /\ UNCHANGED <<productsFile, submissionsFile, dataDir, now, uuid, faults>>

\* -------------------------------------------------------------- requests
S(c) == Str(<<c>>)
Mk(op, id, body, q) == [op |-> op, id |-> id, body |-> body, q |-> q, raw |-> body]
Query(fields) ==
    [f \in DOMAIN NoQuery |-> IF f \in DOMAIN fields THEN fields[f] ELSE Absent]

\* Product bodies: a plain one, one that the sanitizers change (blanks
\* around the name, a price sent as a string), and one that breaks two rules.
SoapBody ==
    ProductBody([name |-> S("a"), description |-> S("d"), packaging |-> S("p"),
                 category |-> S("A"), price |-> Num(5)])
BleachBody ==
    ProductBody([name |-> Str(<<" ", "b">>), description |-> S("d"), packaging |-> S("p"),
                 category |-> Str(<<"a", " ", "b">>), price |-> S("7"), image |-> S("x")])
BlankBody ==
    ProductBody([name |-> S(" "), description |-> S("d"), packaging |-> S("p"),
                 category |-> S("A"), price |-> Str(<<"-", "1">>)])
CreateBodies == {SoapBody, BleachBody, BlankBody}

\* Id parameters: "2", "3", one that is not numeric, and "1.5", which
\* isNumeric accepts and parseInt reads as 1.
IdParams == {S("2"), S("3"), S("x"), Str(<<"1", ".", "5">>)}

\* Updates: a new name, an id and a price sent as a string, fields no chain
\* looks at, a blank name, a category that is a number, an id that is not
\* numeric, and an id beyond the stored ones.
UpdateRequests ==
    {Mk("update", S("2"), ProductBody([name |-> Str(<<"c", " ">>)]), NoQuery),
     Mk("update", Str(<<"1", ".", "5">>), ProductBody([id |-> Num(9), price |-> S("3")]),
        NoQuery),
     Mk("update", S("2"), ProductBody([description |-> Str(<<>>), createdAt |-> S("x")]),
        NoQuery),
     Mk("update", S("2"), ProductBody([name |-> S(" ")]), NoQuery),
     Mk("update", S("2"), ProductBody([category |-> Num(5)]), NoQuery),
     Mk("update", S("x"), ProductBody([name |-> S("c")]), NoQuery),
     Mk("update", S("3"), ProductBody([name |-> S("c")]), NoQuery)}

ListQueries ==
    {NoQuery,
     Query([category |-> S("a"), sort |-> S("name_desc")]),
     Query([search |-> S("D"), minPrice |-> S("5"), maxPrice |-> S("6"),
            sort |-> S("price_desc")])}

TenChars == [i \in 1..MinMessage |-> "a"]
JoBody ==
    ContactBody([firstName |-> Str(<<"J", "o">>), lastName |-> Str(<<"D", "o", "e">>),
                 email |-> Str(<<"J", "@", "x">>), subject |-> S("general"),
                 message |-> Str(TenChars)])
ShortBody ==
    ContactBody([firstName |-> S("J"), lastName |-> Str(<<"D", "o", "e">>),
                 email |-> Str(<<"j", "@", "x">>), subject |-> S("general"),
                 phone |-> Str(<<"1", "2">>), message |-> Str(Tail(TenChars))])
SubmitBodies == {JoBody, ShortBody}

\* Submission ids: the stored one, the first one a submit draws, and one
\* that is never drawn.
StatusRequests ==
    {Mk("updateStatus", uuidv4(0), ContactBody([status |-> S("archived")]), NoQuery),
     Mk("updateStatus", uuidv4(9), ContactBody([status |-> S("read")]), NoQuery),
     Mk("updateStatus", uuidv4(1), ContactBody([status |-> S("bogus")]), NoQuery)}
SubmissionIdParams == {uuidv4(0), uuidv4(9)}
SubmissionQueries ==
    {NoQuery, Query([status |-> S("archived"), sort |-> S("oldest")])}

ProductRequests ==
    {Mk("create", Absent, b, NoQuery) : b \in CreateBodies}
    \cup UpdateRequests
    \cup {Mk("delete", i, NoBody, NoQuery) : i \in IdParams}
    \cup {Mk("getById", i, NoBody, NoQuery) : i \in IdParams \cup {S("1")}}
    \cup {Mk("listAll", Absent, NoBody, q) : q \in ListQueries}
    \cup {Mk("categories", Absent, NoBody, NoQuery)}
    \cup {Mk("listByCategory", Absent, NoBody,
             Query([category |-> Str(<<"A", " ", " ", "B">>)]))}

ContactRequests ==
    {Mk("submit", Absent, b, NoQuery) : b \in SubmitBodies}
    \cup {Mk("listSubmissions", Absent, NoBody, q) : q \in SubmissionQueries}
    \cup StatusRequests
    \cup {Mk("deleteSubmission", i, NoBody, NoQuery) : i \in SubmissionIdParams}

UnroutedRequests == {Mk(op, Absent, NoBody, NoQuery) : op \in UnroutedOps}

Requests == ProductRequests \cup ContactRequests \cup UnroutedRequests

\* A request arrives and takes the first free slot (the slots have no
\* identity in the program): its validation chains and handleValidationErrors
\* run, and the handler is entered or 400 is answered.
Request(p) ==
    /\ pc[p] = "idle" /\ now < MaxReqs
    /\ \A q \in Procs : q < p => pc[q] # "idle"
    /\ now' = now + 1
    /\ \E r \in Requests :
        IF handleValidationErrors(validationResult(r))
        THEN /\ log' = Append(log, Entry(p, r, NoIO, Invalid(validationResult(r))))
             /\ UNCHANGED <<pc, req>>
        ELSE /\ pc' = [pc EXCEPT ![p] = IF r.op \in UnroutedOps THEN "frontend" ELSE "read"]
             /\ req' = [req EXCEPT ![p] = Sanitized(r)]
             /\ UNCHANGED log
    /\ UNCHANGED <<productsFile, submissionsFile, dataDir, local, item, io, uuid, faults>>

\* ------------------------------------------------------------------ Init
\* The catalogs the server starts on: empty, or two products as create wrote
\* them.  The submissions file is absent (no data directory) or holds one.
Stored(id, body, t) == [newProduct(<<>>, body, t) EXCEPT !.id = Num(id)]
InitialCatalogs ==
    {<<>>, <<Stored(1, SoapBody, 0),
             Stored(2, Sanitized(Mk("create", Absent, BleachBody, NoQuery)).body, 0)>>}
InitialSubmissions ==
    {<<>>, <<newSubmission(Sanitized(Mk("submit", Absent, JoBody, NoQuery)).body, uuidv4(0), 0)>>}

Init ==
    /\ productsFile \in InitialCatalogs
    /\ submissionsFile \in InitialSubmissions
    /\ dataDir = (submissionsFile # <<>>)
    /\ pc = [p \in Procs |-> "idle"]
    /\ req = [p \in Procs |-> NoReq]
    /\ local = [p \in Procs |-> <<>>]
    /\ item = [p \in Procs |-> NoRecord]
    /\ io = [p \in Procs |-> NoIO]
    /\ now = 0
    /\ uuid = 1
    /\ faults = 0
    /\ log = <<>>

\* The steps of the handlers that are running.
Work(p) ==
    \/ ProductCreateRead(p)
    \/ ProductCreateSave(p)
    \/ ProductUpdateRead(p)
    \/ ProductUpdateSave(p)
    \/ ProductDeleteRead(p)
    \/ ProductDeleteSave(p)
    \/ ProductGetById(p)
    \/ ProductListRead(p)
    \/ ProductListCategories(p)
    \/ ProductCategories(p)
    \/ ProductListByCategory(p)
    \/ ContactSubmitRead(p)
    \/ ContactSubmitSave(p)
    \/ ContactList(p)
    \/ ContactStatusRead(p)
    \/ ContactStatusSave(p)
    \/ ContactDeleteRead(p)
    \/ ContactDeleteSave(p)
    \/ FrontendCatchAll(p)
    \/ ApiNotFound(p)

Next == \E p \in Procs : Request(p) \/ Work(p)

Spec == Init /\ [][Next]_vars

\* Requests that do not overlap: one arrives only when every slot is free.
Quiet == \A q \in Procs : pc[q] = "idle"
RequestSeq(p) == Quiet /\ Request(p)
NextSeq == \E p \in Procs : RequestSeq(p) \/ Work(p)

SpecSeq == Init /\ [][NextSeq]_vars

\* Express runs every middleware and every continuation of a request that
\* is ready to run.
SpecSeqLive == SpecSeq /\ \A p \in Procs : WF_vars(Work(p))


\* ---------------------------------------------------------- properties
Last(l) == l[Len(l)]
LogIdx == 1..Len(log)
Is(e, op, status) == e.req.op = op /\ e.res.status = status
\* The request as the client sent it, before the sanitizers.
AsSent(r) == [r EXCEPT !.body = r.raw]

MutatingOps == {"create", "update", "delete", "submit", "updateStatus", "deleteSubmission"}
ProductOps ==
    {"create", "update", "delete", "getById", "listAll", "categories", "listByCategory"}
ListingOps == {"listAll", "categories", "listByCategory", "listSubmissions"}

\* C1: whatever non-overlapping create, update and delete requests have
\* run on a catalog whose ids were pairwise distinct, no two stored products
\* have the same id.
C1_UniqueIds ==
    \A i, j \in 1..Len(productsFile) :
        i # j => productsFile[i].id # productsFile[j].id

\* A delete, then a create, both persisted, on the catalog of two products.
C1_Witness ==
    /\ Len(log) = 2
    /\ Is(log[1], "delete", 200) /\ log[1].io.saved = "ok"
    /\ Is(log[2], "create", 201) /\ log[2].io.saved = "ok"
    /\ Len(productsFile) = 2

\* C2: once a product with id k has been deleted, no later create assigns
\* id k to a new product.
C2_NeverReused ==
    \A i, j \in LogIdx :
        (/\ i < j
         /\ Is(log[i], "delete", 200) /\ log[i].io.saved = "ok"
         /\ Is(log[j], "create", 201))
        => log[j].res.data[1].id # log[i].res.data[1].id

\* C3: a write that succeeds leaves in the file exactly the array its handler
\* holds, whatever the file held: a change persisted between the handler's
\* load and its write is discarded, and both requests are answered success.
C3_LastWriterWins ==
    [][\A p \in Procs :
         (pc[p] = "save" /\ pc'[p] = "idle" /\ Last(log').io.saved = "ok")
         => IF req[p].op \in ProductOps
            THEN productsFile' = local[p]
            ELSE submissionsFile' = local[p]]_vars

\* Two creates (or two submits), both written and both answered 201, and the
\* record of the first is not in the file.
C3_Witness ==
    \E i, j \in LogIdx :
        /\ i < j
        /\ log[i].io.saved = "ok" /\ log[j].io.saved = "ok"
        /\ \/ /\ Is(log[i], "create", 201) /\ Is(log[j], "create", 201)
              /\ log[i].res.data[1] \notin Range(productsFile)
              /\ log[j].res.data[1] \in Range(productsFile)
           \/ /\ Is(log[i], "submit", 201) /\ Is(log[j], "submit", 201)
              /\ \A k \in 1..Len(submissionsFile) :
                    submissionsFile[k].id # log[i].res.data[1].id
              /\ \E k \in 1..Len(submissionsFile) :
                    submissionsFile[k].id = log[j].res.data[1].id

\* C4: the ids returned by successful creates are pairwise distinct.
C4_DistinctCreatedIds ==
    \A i, j \in LogIdx :
        (i # j /\ Is(log[i], "create", 201) /\ Is(log[j], "create", 201))
        => log[i].res.data[1].id # log[j].res.data[1].id


NoProductMatches(id) == \A i \in 1..Len(productsFile) : ~MatchesId(productsFile[i], id)
NoSubmissionMatches(id) == \A i \in 1..Len(submissionsFile) : submissionsFile[i].id # id
Answered(p) == pc[p] # "idle" /\ pc'[p] = "idle"
IsNotFound(e) == e.res.status = 404 /\ e.res.success = FALSE

C6_WriteFailureReported ==
    \A i \in LogIdx :
        (log[i].req.op \in MutatingOps /\ log[i].io.saved = "failed")
        => (log[i].res.success = FALSE /\ log[i].res.status >= 500)

\* C7: a listing whose load of the file failed answers success=true with an
\* empty data list and count 0, and writes nothing.
C7_ListingDegrades ==
    \A i \in LogIdx :
        (log[i].req.op \in ListingOps)
        => /\ log[i].io.writes = 0
           /\ 1 \in log[i].io.failed
              => (/\ log[i].res.status = 200 /\ log[i].res.success = TRUE
                  /\ log[i].res.data = <<>> /\ log[i].res.count = Num(0))

\* The full listing of a catalog of two products whose first load failed and
\* whose second load succeeded.
C7_Witness ==
    \E i \in LogIdx :
        /\ log[i].req.op = "listAll" /\ log[i].io.failed = {1}
        /\ log[i].res.categories # <<>>
        /\ Len(productsFile) = 2

\* C8: a mutating request that breaks a field rule never enters its handler:
\* it is answered 400 with success=false and the failing (field, message)
\* pairs, and it has neither loaded nor written a file.
C8_ValidationFirst ==
    /\ \A p \in Procs :
          (pc[p] # "idle" /\ req[p].op \in MutatingOps)
          => validationResult(AsSent(req[p])) = <<>>
    /\ \A i \in LogIdx :
          (log[i].req.op \in MutatingOps /\ validationResult(AsSent(log[i].req)) # <<>>)
          => (/\ log[i].res.status = 400 /\ log[i].res.success = FALSE
              /\ log[i].res.errors = validationResult(AsSent(log[i].req))
              /\ log[i].io.reads = 0 /\ log[i].io.writes = 0)

\* A create that breaks two rules and a status update with an unknown status
\* have both been refused.
C8_Witness ==
    /\ Len(log) = 2
    /\ Is(log[1], "create", 400) /\ Len(log[1].res.errors) = 2
    /\ Is(log[2], "updateStatus", 400)
    /\ productsFile # <<>>

C10_CreateThenGet ==
    \A i \in LogIdx :
        (/\ i < Len(log)
         /\ Is(log[i], "create", 201) /\ log[i + 1].req.op = "getById"
         /\ parseInt(StrOf(log[i + 1].req.id)) = log[i].res.data[1].id)
        => /\ log[i + 1].res.status = 200
           /\ log[i + 1].res.data = log[i].res.data
           /\ \A f \in {"name", "description", "packaging", "category", "price"} :
                 log[i].res.data[1][f] = log[i].req.raw[f]

\* C11: a full listing whose loads succeeded, answered while no other
\* request runs, returns with category=X and no other filter exactly the
\* stored products whose category is X up to letter case, and its categories
\* are the distinct categories of the whole stored catalog whatever the
\* query parameters are.
C11_CategoryAndCategories ==
    [][\A p \in Procs :
         (/\ pc[p] \in {"read", "read2"} /\ pc'[p] = "idle"
          /\ req[p].op = "listAll" /\ Last(log').io.failed = {})
         => LET e == Last(log')
                q == e.req.q
                X == toLowerCase(StrOf(q.category))
                matching == {i \in 1..Len(productsFile) :
                                /\ IsString(productsFile[i].category)
                                /\ toLowerCase(StrOf(productsFile[i].category)) = X}
            IN  /\ e.res.status = 200
                /\ (Truthy(q.category) /\ ~Truthy(q.search)
                    /\ ~Truthy(q.minPrice) /\ ~Truthy(q.maxPrice))
                   => /\ Range(e.res.data) = {productsFile[i] : i \in matching}
                      /\ Len(e.res.data) = Cardinality(matching)
                /\ Range(e.res.categories) =
                      {productsFile[i].category : i \in 1..Len(productsFile)}
                /\ Len(e.res.categories) = Cardinality(Range(e.res.categories))
      ]_vars

\* C12: an updateStatus whose value is outside the four statuses is answered
\* 400 and writes nothing; an updateStatus that was answered success and is
\* followed at once by a listing with that status, whose load succeeded, has
\* its submission in that listing; and the status of every stored submission
\* is one of the four values.
C12_StatusUpdate ==
    /\ \A i \in LogIdx :
          (log[i].req.op = "updateStatus" /\ StrOf(log[i].req.raw.status) \notin Statuses)
          => (log[i].res.status = 400 /\ log[i].io.writes = 0)
    /\ \A i \in LogIdx :
          (/\ i < Len(log)
           /\ Is(log[i], "updateStatus", 200)
           /\ log[i + 1].req.op = "listSubmissions"
           /\ log[i + 1].req.q.status = log[i].req.body.status
           /\ log[i + 1].io.failed = {})
          => \E k \in 1..Len(log[i + 1].res.data) :
                /\ log[i + 1].res.data[k].id = log[i].req.id
                /\ log[i + 1].res.data[k].status = log[i].req.body.status
    /\ \A k \in 1..Len(submissionsFile) :
          /\ IsString(submissionsFile[k].status)
          /\ StrOf(submissionsFile[k].status) \in Statuses

\* C13: every request to a path under /api that no route matches, whatever
\* its method, is eventually answered 404 with success=false and the error
\* 'API endpoint not found'.
C13_UnroutedAnswered ==
    \A p \in Procs :
        (pc[p] = "frontend")
        ~> (/\ pc[p] = "idle" /\ log # <<>>
            /\ Last(log).req.op \in UnroutedOps
            /\ Last(log).res.status = 404 /\ Last(log).res.success = FALSE
            /\ Last(log).res.error = ApiEndpointNotFound)

\* C14: a create or submit that is answered 201 after its write succeeded,
\* with no other request running, only adds one record: every record of the
\* file before the request is in the file after it, also when the load at
\* the start of the request failed.
C14_CreateOnlyAdds ==
    [][\A p \in Procs :
         (/\ pc[p] = "save" /\ pc'[p] = "idle"
          /\ req[p].op \in {"create", "submit"}
          /\ Last(log').res.status = 201 /\ Last(log').io.saved = "ok")
         => /\ Range(productsFile) \subseteq Range(productsFile')
            /\ Range(submissionsFile) \subseteq Range(submissionsFile')
            /\ Len(productsFile') + Len(submissionsFile')
                  = Len(productsFile) + Len(submissionsFile) + 1
      ]_vars

\* C15: after any accepted create and update requests, every stored product
\* has a non-empty string as name, description, category and packaging, a
\* number >= 0 as price, and the createdAt stamped at its creation.
C15_ProductFieldRules ==
    \A k \in 1..Len(productsFile) :
        LET x == productsFile[k]
        IN  /\ \A f \in {"name", "description", "category", "packaging"} :
                  IsString(x[f]) /\ notEmpty(x[f])
            /\ x.price.k = "num" /\ x.price.n >= 0
            /\ x.createdAt.k = "time"

\* C16: in every answer of the full product listing whose two loads both
\* succeeded, also one answered while a product mutation runs, the category
\* of every product of data is one of the returned categories.
C16_ListingConsistent ==
    \A i \in LogIdx :
        (Is(log[i], "listAll", 200) /\ log[i].io.failed = {})
        => \A k \in 1..Len(log[i].res.data) :
              log[i].res.data[k].category \in Range(log[i].res.categories)

====
